---- MODULE Spec2Model ----
(***************************************************************************)
(* Model of maths/numerical_analysis/adams_bashforth.py: the dataclass     *)
(* AdamsBashforth, its __post_init__ validation, the four entry points     *)
(* step_2 .. step_5 and the shared stepping loop _adams_bashforth.         *)
(*                                                                         *)
(* NUMBERS.  An abscissa (x_initials, step_size, x_final, the window) and  *)
(* an element of y_initials is a pair <<w, e>> standing for w + e * 2^-35  *)
(* with small integers w and e: w counts whole units, e counts increments  *)
(* of 2^-35 (about 2.9e-11), which is below the resolution of              *)
(* round(_, 10).  Sums and differences of such numbers are exact in IEEE   *)
(* double arithmetic, so the pair arithmetic is what the code computes on  *)
(* the abscissas.  The entries of a result array, the values of func and   *)
(* everything computed from them are IEEE doubles, (-1)^neg * m * 2^e with *)
(* m an odd natural number (or zero) held in limbs of 15 bits, and FAdd,   *)
(* FMul and FDivInt round to nearest, ties to even, as the code's float64  *)
(* operations do (1/6 and 1/24 are not doubles).  Overflow and subnormal   *)
(* numbers do not occur at the magnitudes explored and are not modelled.   *)
(*                                                                         *)
(* Python indices are 0-based; At(s, j) reads s[j] of the source.          *)
(*                                                                         *)
(* NUMPY.  The source calls np.math.factorial.  np.math was an alias of    *)
(* the standard math module that NumPy 2.0 removed, so the outcome depends *)
(* on the installed NumPy: np_math tells whether the alias exists.  Where  *)
(* it does not, the first loop iteration raises AttributeError.            *)
(***************************************************************************)
EXTENDS Integers, Sequences, FiniteSets, TLC

VARIABLES np_math, args, self, heap, pc, err, frame, calls

vars == <<np_math, args, self, heap, pc, err, frame, calls>>

---------------------------------------------------------------------------
(* Bounds of the explored inputs and runs. *)

\* longest x_initials / y_initials list supplied to the constructor
MaxLen == 5
\* largest whole part of x_final
MaxFinal == 7
\* number of step_k calls made on one object
MaxCalls == 2

---------------------------------------------------------------------------
(* Number arithmetic on pairs <<w, e>> = w + e * 2^-35. *)

Zero == <<0, 0>>

Whole(w) == <<w, 0>>

Add(a, b) == <<a[1] + b[1], a[2] + b[2]>>

Sub(a, b) == <<a[1] - b[1], a[2] - b[2]>>

Scale(c, a) == <<c * a[1], c * a[2]>>

\* a < b; the offsets e are far smaller than 2^35, so the order is lexicographic
Lt(a, b) == a[1] < b[1] \/ (a[1] = b[1] /\ a[2] < b[2])

Leq(a, b) == a = b \/ Lt(a, b)

\* Python's s[j]
At(s, j) == s[j + 1]

\* Python's s[-1]
Last(s) == s[Len(s)]

\* Python's s[:k]
Take(s, k) == [j \in 1..(IF k < Len(s) THEN k ELSE Len(s)) |-> s[j]]

\* Python's s[1:]
Rest(s) == [j \in 1..(Len(s) - 1) |-> s[j + 1]]

\* Python's s[::-1]
Reverse(s) == [j \in 1..Len(s) |-> s[Len(s) + 1 - j]]

---------------------------------------------------------------------------
(* round(v, 10).  The result is a multiple of 10^-10: [w, g] stands for    *)
(* w + g * 10^-10, g being the multiple of 10^-10 nearest to e * 2^-35,    *)
(* that is the integer nearest to e * 10^10 / 2^35 = e * 5^10 / 2^25.      *)
(* No tie is possible (5^10 is odd).                                       *)

Round10(v) ==
    [w |-> v[1], g |-> (2 * v[2] * (5^10) + 2^25) \div (2^26)]

\* round(v, 10) == h for a number h = <<w, e>>: a multiple of 10^-10 equals
\* w + e * 2^-35 (|e| small) only when both are the same whole number.
RoundedEquals(r, h) == r.g = 0 /\ h[2] = 0 /\ r.w = h[1]

---------------------------------------------------------------------------
(* Natural numbers of any size, as sequences of limbs, least significant   *)
(* first, without leading zero limbs.                                      *)

\* bits of a limb
LimbBits == 15

Limb == 2^LimbBits

RECURSIVE NNorm(_)
NNorm(a) ==
    IF a = <<>> THEN <<>>
    ELSE IF a[Len(a)] = 0 THEN NNorm(SubSeq(a, 1, Len(a) - 1)) ELSE a

RECURSIVE NFromInt(_)
NFromInt(n) == IF n = 0 THEN <<>> ELSE <<n % Limb>> \o NFromInt(n \div Limb)

RECURSIVE NAddC(_, _, _)
NAddC(a, b, c) ==
    IF a = <<>> /\ b = <<>> THEN (IF c = 0 THEN <<>> ELSE <<c>>)
    ELSE LET s == (IF a = <<>> THEN 0 ELSE a[1]) + (IF b = <<>> THEN 0 ELSE b[1]) + c
         IN  <<s % Limb>> \o NAddC(IF a = <<>> THEN a ELSE Tail(a),
                                   IF b = <<>> THEN b ELSE Tail(b), s \div Limb)

NAdd(a, b) == NAddC(a, b, 0)

\* a - b - c for a >= b + c, not normalised
RECURSIVE NSubC(_, _, _)
NSubC(a, b, c) ==
    IF a = <<>> THEN <<>>
    ELSE LET s == a[1] - (IF b = <<>> THEN 0 ELSE b[1]) - c
         IN  <<s % Limb>> \o NSubC(Tail(a), IF b = <<>> THEN b ELSE Tail(b),
                                   IF s < 0 THEN 1 ELSE 0)

NSub(a, b) == NNorm(NSubC(a, b, 0))

\* a < b
RECURSIVE NLess(_, _)
NLess(a, b) ==
    IF Len(a) # Len(b) THEN Len(a) < Len(b)
    ELSE IF a = <<>> THEN FALSE
    ELSE IF a[Len(a)] # b[Len(b)] THEN a[Len(a)] < b[Len(b)]
    ELSE NLess(SubSeq(a, 1, Len(a) - 1), SubSeq(b, 1, Len(b) - 1))

RECURSIVE NMulSmallC(_, _, _)
NMulSmallC(a, k, c) ==
    IF a = <<>> THEN (IF c = 0 THEN <<>> ELSE <<c>>)
    ELSE LET s == a[1] * k + c
         IN  <<s % Limb>> \o NMulSmallC(Tail(a), k, s \div Limb)

NMulSmall(a, k) == IF k = 0 THEN <<>> ELSE NMulSmallC(a, k, 0)

RECURSIVE NMul(_, _)
NMul(a, b) ==
    IF a = <<>> \/ b = <<>> THEN <<>>
    ELSE LET rest == NMul(a, Tail(b))
         IN  NAdd(NMulSmall(a, b[1]), IF rest = <<>> THEN rest ELSE <<0>> \o rest)

\* <<quotient, remainder>> of a by 0 < d <= Limb
RECURSIVE NDivMod(_, _)
NDivMod(a, d) ==
    IF a = <<>> THEN <<(<<>>), 0>>
    ELSE LET hi == NDivMod(Tail(a), d)
             cur == hi[2] * Limb + a[1]
         IN  <<NNorm(<<cur \div d>> \o hi[1]), cur % d>>

NShl(a, k) ==
    IF a = <<>> THEN a
    ELSE [j \in 1..(k \div LimbBits) |-> 0] \o NMulSmall(a, 2^(k % LimbBits))

NShr(a, k) ==
    IF k \div LimbBits >= Len(a) THEN <<>>
    ELSE NDivMod(SubSeq(a, k \div LimbBits + 1, Len(a)), 2^(k % LimbBits))[1]

\* bit i of a
NBit(a, i) ==
    IF i \div LimbBits >= Len(a) THEN 0
    ELSE (a[i \div LimbBits + 1] \div 2^(i % LimbBits)) % 2

\* a mod 2^k = 0
NLowZero(a, k) ==
    /\ \A j \in 1..(k \div LimbBits) : j > Len(a) \/ a[j] = 0
    /\ k \div LimbBits >= Len(a) \/ a[k \div LimbBits + 1] % 2^(k % LimbBits) = 0

RECURSIVE IntBits(_)
IntBits(n) == IF n = 0 THEN 0 ELSE 1 + IntBits(n \div 2)

NBits(a) == IF a = <<>> THEN 0 ELSE LimbBits * (Len(a) - 1) + IntBits(a[Len(a)])

RECURSIVE NTrailingZeros(_)
NTrailingZeros(a) ==
    IF a = <<>> THEN 0
    ELSE IF a[1] = 0 THEN LimbBits + NTrailingZeros(Tail(a))
    ELSE IF a[1] % 2 = 0 THEN 1 + NTrailingZeros(<<a[1] \div 2>>)
    ELSE 0

---------------------------------------------------------------------------
(* IEEE doubles: float64 arithmetic, round to nearest, ties to even. *)

\* significant bits of a float64
Precision == 53

FZero == [neg |-> FALSE, m |-> <<>>, e |-> 0]

Canon(neg, m, e) ==
    IF m = <<>> THEN FZero
    ELSE LET z == NTrailingZeros(m)
         IN  [neg |-> neg, m |-> NShr(m, z), e |-> e + z]

\* the double nearest to (-1)^neg * m * 2^e, ties to even
FRound(neg, m, e) ==
    LET n == NBits(m)
    IN  IF n <= Precision THEN Canon(neg, m, e)
        ELSE LET r == n - Precision
                 q == NShr(m, r)
                 up == /\ NBit(m, r - 1) = 1
                       /\ (~ NLowZero(m, r - 1) \/ NBit(q, 0) = 1)
             IN  Canon(neg, IF up THEN NAdd(q, <<1>>) ELSE q, e + r)

FAdd(a, b) ==
    LET e == IF a.e < b.e THEN a.e ELSE b.e
        x == NShl(a.m, a.e - e)
        y == NShl(b.m, b.e - e)
    IN  IF a.m = <<>> THEN b
        ELSE IF b.m = <<>> THEN a
        ELSE IF a.neg = b.neg THEN FRound(a.neg, NAdd(x, y), e)
        ELSE IF NLess(x, y) THEN FRound(b.neg, NSub(y, x), e)
        ELSE FRound(a.neg, NSub(x, y), e)

FMul(a, b) == FRound(a.neg # b.neg, NMul(a.m, b.m), a.e + b.e)

\* a / k for an integer 0 < k <= Limb: the quotient to 2 * Precision bits
\* with a sticky last bit, rounded
FDivInt(a, k) ==
    LET s == 2 * Precision
        qr == NDivMod(NShl(a.m, s), k)
        m == NAdd(NMulSmall(qr[1], 2), IF qr[2] = 0 THEN <<>> ELSE <<1>>)
    IN  IF a.m = <<>> THEN FZero ELSE FRound(a.neg, m, a.e - s - 1)

FFromInt(n) == Canon(n < 0, NFromInt(IF n < 0 THEN -n ELSE n), 0)

\* the double w + e * 2^-35
FFromPair(p) == FAdd(FFromInt(p[1]), Canon(p[2] < 0, NFromInt(IF p[2] < 0 THEN -p[2] ELSE p[2]), -35))

---------------------------------------------------------------------------
(* The errors.  Every check raises ValueError; the message tells the kind. *)

NoError == "none"

\* x_initials[-1] of an empty list
IndexError == "list index out of range"

InvalidRangeError ==
    "The final value of x must be greater than the initial values of x."

InvalidStepSizeError == "Step size must be positive."

NonUniformSpacingError ==
    "x-values must be equally spaced according to step size."

\* np.math on a NumPy without the alias
AttributeError == "module 'numpy' has no attribute 'math'"

InsufficientInitialPointsError(required_points) ==
    "Insufficient initial points information. Required: "
        \o ToString(required_points)

---------------------------------------------------------------------------
(* __post_init__: the three checks, in the order of the source. *)

\* the range check reads x_initials[-1] and compares it with x_final
range_check_fails(x_last, x_final) == ~ Lt(x_last, x_final)

step_check_fails(step_size) == ~ Lt(Zero, step_size)

\* all(round(x1 - x0, 10) == step_size for x0, x1 in zip(xs, xs[1:]))
equally_spaced(x_initials, step_size) ==
    \A j \in 1..(Len(x_initials) - 1) :
        RoundedEquals(Round10(Sub(x_initials[j + 1], x_initials[j])), step_size)

post_init_swapped(x_initials, step_size, x_final) ==
    IF Len(x_initials) = 0 THEN IndexError
    ELSE IF range_check_fails(Last(x_initials), x_final) THEN InvalidRangeError
    ELSE IF ~ equally_spaced(x_initials, step_size) THEN NonUniformSpacingError
    ELSE IF step_check_fails(step_size) THEN InvalidStepSizeError
    ELSE NoError

post_init_strict_range(x_initials, step_size, x_final) ==
    IF Len(x_initials) = 0 THEN IndexError
    ELSE IF Lt(x_final, Last(x_initials)) THEN InvalidRangeError
    ELSE IF step_check_fails(step_size) THEN InvalidStepSizeError
    ELSE IF ~ equally_spaced(x_initials, step_size) THEN NonUniformSpacingError
    ELSE NoError

\* the error __post_init__ raises, NoError when it returns
post_init(x_initials, step_size, x_final) ==
    IF Len(x_initials) = 0 THEN IndexError
    ELSE IF range_check_fails(Last(x_initials), x_final) THEN InvalidRangeError
    ELSE IF step_check_fails(step_size) THEN InvalidStepSizeError
    ELSE IF ~ equally_spaced(x_initials, step_size) THEN NonUniformSpacingError
    ELSE NoError

---------------------------------------------------------------------------
(* _validate_initial_points *)

validate_at_least(x_initials, y_initials, required_points) ==
    IF Len(x_initials) < required_points \/ Len(y_initials) < required_points
    THEN InsufficientInitialPointsError(required_points)
    ELSE NoError

validate_either(x_initials, y_initials, required_points) ==
    IF Len(x_initials) # required_points /\ Len(y_initials) # required_points
    THEN InsufficientInitialPointsError(required_points)
    ELSE NoError

validate_initial_points(x_initials, y_initials, required_points) ==
    IF Len(x_initials) # required_points \/ Len(y_initials) # required_points
    THEN InsufficientInitialPointsError(required_points)
    ELSE NoError

---------------------------------------------------------------------------
(* _adams_bashforth: the pieces of the stepping algorithm. *)

\* the float64 entry holding the list element v
ToY(v) == FFromPair(v)

Orders == {2, 3, 4, 5}

coeffs(order) ==
    CASE order = 2 -> <<3, -1>>
      [] order = 3 -> <<23, -16, 5>>
      [] order = 4 -> <<55, -59, 37, -9>>
      [] order = 5 -> <<1901, -2774, 2616, -1274, 251>>

RECURSIVE factorial(_)
factorial(m) == IF m <= 1 THEN 1 ELSE m * factorial(m - 1)

\* the caller's derivative function; "sum" is the doctest's f(x, y) = x + y,
\* "y" is f(x, y) = y.  x is an abscissa, y an array entry (a double).
func_value(func, x, y) ==
    IF func = "sum" THEN FAdd(FFromPair(x), y) ELSE y

step_count_ceil(x_final, x_last, step_size) ==
    IF step_size[1] <= 0 THEN 0
    ELSE LET a == Sub(x_final, x_last)
             q == a[1] \div step_size[1]
         IN  IF a[1] % step_size[1] = 0 /\ a[2] <= 0 THEN q ELSE q + 1

\* n = int((x_final - x_vals[-1]) / step_size).  The algorithm runs only on
\* a constructed object with at least two points, so step_size is a positive
\* whole number here (the spacing check) and x_final - x_vals[-1] > 0.
step_count(x_final, x_last, step_size) ==
    IF step_size[1] <= 0 THEN 0
    ELSE LET a == Sub(x_final, x_last)
             q == a[1] \div step_size[1]
         IN  IF a[1] % step_size[1] = 0 /\ a[2] < 0 THEN q - 1 ELSE q

\* y = np.zeros(n + order); y[:order] = y_vals
initial_array(y_vals, n, order) ==
    [j \in 1..(n + order) |->
        IF j <= order /\ j <= Len(y_vals) THEN ToY(y_vals[j]) ELSE FZero]

\* the arguments of the order calls of func in one iteration:
\* [self.func(x, y[j]) for j, x in enumerate(x_vals)]
func_arguments(x_vals, y) ==
    [j \in 1..Len(x_vals) |-> <<x_vals[j], y[j]>>]

\* acc + a[0]*b[0] + a[1]*b[1] + ..., summed from the left
RECURSIVE dot_from(_, _, _)
dot_from(acc, a, b) ==
    IF Len(a) = 0 \/ Len(b) = 0 THEN acc
    ELSE dot_from(FAdd(acc, FMul(FFromInt(a[1]), b[1])), Tail(a), Tail(b))

\* np.dot(a, b) of an integer list and a float64 array
dot(a, b) == dot_from(FZero, a, b)

combine_unreversed(order, f_vals) == dot(coeffs(order), f_vals)

\* np.dot(coeffs, f_vals[::-1])
combine(order, f_vals) == dot(coeffs(order), Reverse(f_vals))

\* (self.step_size / np.math.factorial(order - 1)) * d: the quotient is
\* rounded, then the product
increment(step_size, order, d) ==
    FMul(FDivInt(FFromPair(step_size), factorial(order - 1)), d)

store_index_previous(order, i) == order + i - 1

\* the index written by y[order + i] = ...
store_index(order, i) == order + i

slide_keep_oldest(x_vals, step_size) ==
    Append(x_vals, Add(Last(x_vals), step_size))

\* x_vals = np.append(x_vals[1:], x_vals[-1] + step_size)
slide(x_vals, step_size) ==
    Append(Rest(x_vals), Add(Last(x_vals), step_size))

\* the body of the loop for index i: the arguments and values of the calls
\* of func, then either AttributeError from np.math (array and window left
\* as they were) or the array with its new entry and the window slid
iteration(has_math, func, step_size, order, x_vals, y, i) ==
    LET f_args == func_arguments(x_vals, y)
        f_vals == [j \in 1..Len(f_args) |->
                      func_value(func, f_args[j][1], f_args[j][2])]
        new == FAdd(At(y, order + i - 1),
                    increment(step_size, order, combine(order, f_vals)))
    IN  IF has_math
        THEN [raised |-> NoError,
              f_args |-> f_args,
              f_vals |-> f_vals,
              y |-> [y EXCEPT ![store_index(order, i) + 1] = new],
              x_vals |-> slide(x_vals, step_size)]
        ELSE [raised |-> AttributeError,
              f_args |-> f_args,
              f_vals |-> f_vals,
              y |-> y,
              x_vals |-> x_vals]

\* for i in range(n): ...; return y
RECURSIVE run_loop(_, _, _, _, _, _, _, _)
run_loop(has_math, func, step_size, order, x_vals, y, i, n) ==
    IF i >= n THEN [raised |-> NoError, ret |-> y]
    ELSE LET it == iteration(has_math, func, step_size, order, x_vals, y, i)
         IN  IF it.raised # NoError THEN [raised |-> it.raised, ret |-> <<>>]
             ELSE run_loop(has_math, func, step_size, order,
                           it.x_vals, it.y, i + 1, n)

\* _adams_bashforth(order): the error raised and the array returned (empty
\* when it raises)
adams_bashforth(has_math, func, x_initials, y_initials, step_size, x_final, order) ==
    LET x_vals == Take(x_initials, order)
        y_vals == Take(y_initials, order)
        n == step_count(x_final, Last(x_vals), step_size)
    IN  run_loop(has_math, func, step_size, order, x_vals,
                 initial_array(y_vals, n, order), 0, n)

\* step_k on an object with these fields
step(has_math, func, x_initials, y_initials, step_size, x_final, k) ==
    LET e == validate_initial_points(x_initials, y_initials, k)
    IN  IF e # NoError THEN [raised |-> e, ret |-> <<>>]
        ELSE adams_bashforth(has_math, func, x_initials, y_initials,
                             step_size, x_final, k)

---------------------------------------------------------------------------
(* Inputs of the constructor. *)

Spacings == {1, 2}

Perturbations == {<<0, 1>>, <<0, 2>>, <<1, 0>>}

EvenGrid(len, s) == [j \in 1..len |-> Whole((j - 1) * s)]

XInputs ==
    UNION {
        {EvenGrid(len, s)}
            \cup {[EvenGrid(len, s) EXCEPT ![p] = Add(@, d)] :
                    p \in 1..len, d \in Perturbations} :
        len \in 0..MaxLen, s \in Spacings}

YInputs ==
    {[j \in 1..len |-> Whole((j * j * j) % 5)] : len \in 0..MaxLen}

StepSizes == {Whole(-1), Whole(0), Whole(1), Whole(2), <<1, 1>>}

XFinals == {<<w, e>> : w \in 1..MaxFinal, e \in {0, 1}}

Funcs == {"sum", "y"}

---------------------------------------------------------------------------
(* State.                                                                  *)
(*   np_math whether the installed NumPy has np.math                       *)
(*   args   the constructor's arguments, as given                          *)
(*   self   the object's fields; the two lists are held by address         *)
(*   heap   the lists and arrays, by address (1-based)                     *)
(*   pc     "post_init", "ready" (constructed), "raised" (construction     *)
(*          failed: no object), "loop" (inside _adams_bashforth)           *)
(*   err    the last error raised                                          *)
(*   frame  the locals of the running _adams_bashforth                     *)
(*   calls  the finished step_k calls, in order                            *)

NoFrame ==
    [order |-> 0, x_vals |-> <<>>, y |-> 0, n |-> 0, i |-> 0,
     f_args |-> <<>>, f_vals |-> <<>>, evals |-> 0]

XAddr == 1

YAddr == 2

X_initials == heap[self.x_initials]

Y_initials == heap[self.y_initials]

Init ==
    /\ np_math \in BOOLEAN
    /\ args \in [func : Funcs, x_initials : XInputs, y_initials : YInputs,
                 step_size : StepSizes, x_final : XFinals]
    /\ self = [func |-> args.func, x_initials |-> XAddr, y_initials |-> YAddr,
               step_size |-> args.step_size, x_final |-> args.x_final]
    /\ heap = <<args.x_initials, args.y_initials>>
    /\ pc = "post_init"
    /\ err = NoError
    /\ frame = NoFrame
    /\ calls = <<>>

\* __post_init__ runs at the end of the generated __init__
PostInit ==
    /\ pc = "post_init"
    /\ LET e == post_init(X_initials, self.step_size, self.x_final)
       IN  /\ err' = e
           /\ pc' = IF e = NoError THEN "ready" ELSE "raised"
    /\ UNCHANGED <<np_math, args, self, heap, frame, calls>>

alloc_reuse(h) == Len(h)

\* the address of a newly created array
alloc(h) == Len(h) + 1

store(h, a, v) == IF a = Len(h) + 1 THEN Append(h, v) ELSE [h EXCEPT ![a] = v]

\* step_k: _validate_initial_points(k), then lines 67-78 of _adams_bashforth
Step(k) ==
    /\ pc = "ready"
    /\ Len(calls) < MaxCalls
    /\ LET e == validate_initial_points(X_initials, Y_initials, k)
       IN  IF e # NoError
           THEN /\ err' = e
                /\ calls' = Append(calls, [order |-> k, raised |-> e,
                                           ret |-> 0, evals |-> frame.evals])
                /\ UNCHANGED <<heap, pc, frame>>
           ELSE LET x_vals == Take(X_initials, k)
                    y_vals == Take(Y_initials, k)
                    n == step_count(self.x_final, Last(x_vals), self.step_size)
                    y == alloc(heap)
                IN  /\ heap' = store(heap, y, initial_array(y_vals, n, k))
                    /\ frame' = [order |-> k, x_vals |-> x_vals, y |-> y,
                                 n |-> n, i |-> 0, f_args |-> <<>>,
                                 f_vals |-> <<>>, evals |-> 0]
                    /\ pc' = "loop"
                    /\ UNCHANGED <<err, calls>>
    /\ UNCHANGED <<np_math, args, self>>

step_2 == Step(2)

step_3 == Step(3)

step_4 == Step(4)

step_5 == Step(5)

\* one iteration of `for i in range(n)`
Iterate ==
    /\ pc = "loop"
    /\ frame.i < frame.n
    /\ LET it == iteration(np_math, self.func, self.step_size, frame.order,
                           frame.x_vals, heap[frame.y], frame.i)
       IN  IF it.raised # NoError
           THEN /\ err' = it.raised
                /\ calls' = Append(calls,
                       [order |-> frame.order, raised |-> it.raised, ret |-> 0,
                        evals |-> frame.evals + Len(it.f_args)])
                /\ pc' = "ready"
                /\ frame' = NoFrame
                /\ UNCHANGED heap
           ELSE /\ heap' = [heap EXCEPT ![frame.y] = it.y]
                /\ frame' = [frame EXCEPT
                               !.x_vals = it.x_vals,
                               !.i = frame.i + 1,
                               !.f_args = it.f_args,
                               !.f_vals = it.f_vals,
                               !.evals = frame.evals + Len(it.f_args)]
                /\ UNCHANGED <<pc, err, calls>>
    /\ UNCHANGED <<np_math, args, self>>

\* return y, line 85
Return ==
    /\ pc = "loop"
    /\ frame.i = frame.n
    /\ calls' = Append(calls, [order |-> frame.order, raised |-> NoError,
                               ret |-> frame.y, evals |-> frame.evals])
    /\ pc' = "ready"
    /\ frame' = NoFrame
    /\ UNCHANGED <<np_math, args, self, heap, err>>

Next ==
    \/ PostInit
    \/ step_2
    \/ step_3
    \/ step_4
    \/ step_5
    \/ Iterate
    \/ Return

Spec == Init /\ [][Next]_vars

---------------------------------------------------------------------------
(* Shorthands of the properties. *)

Constructed == pc \in {"ready", "loop"}

Returned == {c \in 1..Len(calls) : calls[c].raised = NoError}

\* the first k entries of y_initials, as array entries
WarmUp(k) == [j \in 1..k |-> ToY(args.y_initials[j])]

StepNonPositive == ~ Lt(Zero, args.step_size)

---------------------------------------------------------------------------
\* C1: the array of a successful step_k starts with y_initials[0..k-1], in
\* order, in every state of the stepping loop and in the returned array.
Thm_C1_WarmUpKept ==
    /\ pc = "loop" =>
         /\ Len(heap[frame.y]) >= frame.order
         /\ Take(heap[frame.y], frame.order) = WarmUp(frame.order)
    /\ \A c \in Returned :
         /\ Len(heap[calls[c].ret]) >= calls[c].order
         /\ Take(heap[calls[c].ret], calls[c].order) = WarmUp(calls[c].order)

\* a call returned an array with at least two computed entries
Wit_C1_TwoComputed ==
    \E c \in Returned : Len(heap[calls[c].ret]) >= calls[c].order + 2

---------------------------------------------------------------------------
\* C2: the returned array has length k + n, where n >= 0 is the whole
\* number with n * step_size <= x_final - x_initials[k-1] < (n+1) * step_size;
\* when n = 0 the array is exactly y_initials[0..k-1].
Thm_C2_LengthLaw ==
    \A c \in Returned :
        LET k == calls[c].order
            arr == heap[calls[c].ret]
            n == Len(arr) - k
            a == Sub(args.x_final, At(args.x_initials, k - 1))
        IN  /\ n >= 0
            /\ Leq(Scale(n, args.step_size), a)
            /\ Lt(a, Scale(n + 1, args.step_size))
            /\ Lt(a, args.step_size) => arr = WarmUp(k)

\* a call returned with no step taken: x_final is less than one step past
\* the last initial abscissa
Wit_C2_ZeroSteps ==
    \E c \in Returned :
        /\ Len(heap[calls[c].ret]) = calls[c].order
        /\ Lt(Sub(args.x_final, Last(args.x_initials)), args.step_size)

---------------------------------------------------------------------------
\* C3: step_k raises InsufficientInitialPointsError(k) exactly when
\* len(x_initials) # k or len(y_initials) # k; then func was not called and
\* no array is returned, and the stepping loop only ever runs with both
\* lengths equal to k.
Thm_C3_OrderCheck ==
    /\ \A c \in 1..Len(calls) :
         LET k == calls[c].order
             mismatch == Len(args.x_initials) # k \/ Len(args.y_initials) # k
         IN  /\ calls[c].raised = InsufficientInitialPointsError(k) <=> mismatch
             /\ mismatch => calls[c].ret = 0 /\ calls[c].evals = 0
    /\ pc = "loop" =>
         Len(args.x_initials) = frame.order /\ Len(args.y_initials) = frame.order

\* a step_k call was rejected on an object holding more than k points
Wit_C3_ExtraPointsRejected ==
    \E c \in 1..Len(calls) :
        /\ calls[c].raised = InsufficientInitialPointsError(calls[c].order)
        /\ Len(args.x_initials) > calls[c].order
        /\ Len(args.y_initials) > calls[c].order

---------------------------------------------------------------------------
\* C4 as stated: with step_size <= 0 construction fails with
\* InvalidStepSizeError whatever the other fields are.
CE_C4_AlwaysStepSizeError ==
    (pc # "post_init" /\ StepNonPositive) =>
        (pc = "raised" /\ err = InvalidStepSizeError)

\* C4 amended: with step_size <= 0 construction always fails; for a
\* non-empty x_initials the error is InvalidStepSizeError when
\* x_initials[-1] < x_final (equally spaced or not) and InvalidRangeError
\* when x_initials[-1] >= x_final.
Thm_C4_StepSizeAfterRange ==
    (pc # "post_init" /\ StepNonPositive) =>
        /\ pc = "raised"
        /\ err # NoError
        /\ Len(args.x_initials) > 0 =>
             IF Lt(Last(args.x_initials), args.x_final)
             THEN err = InvalidStepSizeError
             ELSE err = InvalidRangeError

\* construction failed on the step size with several, unequally spaced points
Wit_C4_StepSizeErrorMisspaced ==
    /\ pc = "raised"
    /\ err = InvalidStepSizeError
    /\ StepNonPositive
    /\ Len(args.x_initials) >= 3
    /\ \E j \in 1..(Len(args.x_initials) - 2) :
         Sub(args.x_initials[j + 1], args.x_initials[j])
            # Sub(args.x_initials[j + 2], args.x_initials[j + 1])

---------------------------------------------------------------------------
\* C5: construction succeeds exactly when x_initials[-1] < x_final,
\* step_size > 0 and every consecutive difference rounded to 10 decimals
\* equals step_size; otherwise it raises: InvalidRangeError when
\* x_initials[-1] >= x_final, NonUniformSpacingError for a misspaced pair
\* with the other two conditions met.
Thm_C5_ConstructionIff ==
    pc # "post_init" =>
        LET xs == args.x_initials
            in_range == Len(xs) > 0 /\ Lt(Last(xs), args.x_final)
            positive == Lt(Zero, args.step_size)
            spaced == \A j \in 1..(Len(xs) - 1) :
                         RoundedEquals(Round10(Sub(xs[j + 1], xs[j])),
                                       args.step_size)
        IN  /\ Constructed <=> (in_range /\ positive /\ spaced)
            /\ ~ Constructed => pc = "raised" /\ err # NoError
            /\ (Len(xs) > 0 /\ ~ in_range) => err = InvalidRangeError
            /\ (in_range /\ positive /\ ~ spaced) => err = NonUniformSpacingError

\* an object was constructed from abscissas that are equally spaced only
\* after rounding
Wit_C5_ConstructedWithinTolerance ==
    /\ pc = "ready"
    /\ Len(args.x_initials) >= 2
    /\ \E j \in 1..Len(args.x_initials) : args.x_initials[j][2] # 0

---------------------------------------------------------------------------
\* C6: the fields never change; whenever no call is running, every
\* finished call's outcome (the error or the array) is the one step_k gives
\* on the constructor's arguments, whatever was called before or since;
\* every returned array is a
\* new one, shared neither with the lists of the object nor with an earlier
\* result.
Thm_C6_FieldsKeptResultsFresh ==
    /\ self = [func |-> args.func, x_initials |-> XAddr, y_initials |-> YAddr,
               step_size |-> args.step_size, x_final |-> args.x_final]
    /\ \A c \in Returned :
         /\ calls[c].ret \notin {XAddr, YAddr}
         /\ \A d \in Returned : d # c => calls[d].ret # calls[c].ret
    /\ pc = "loop" =>
         /\ frame.y \notin {XAddr, YAddr}
         /\ \A d \in Returned : calls[d].ret # frame.y
    /\ heap[XAddr] = args.x_initials
    /\ heap[YAddr] = args.y_initials
    /\ pc # "loop" =>
         \A c \in 1..Len(calls) :
           LET first == step(np_math, args.func, args.x_initials,
                             args.y_initials, args.step_size, args.x_final,
                             calls[c].order)
           IN  /\ calls[c].raised = first.raised
               /\ IF calls[c].raised = NoError
                  THEN heap[calls[c].ret] = first.ret
                  ELSE calls[c].ret = 0

\* two calls on one object returned arrays with computed entries
Wit_C6_TwoResults ==
    \E c, d \in Returned :
        /\ c < d
        /\ Len(heap[calls[d].ret]) > calls[d].order

---------------------------------------------------------------------------
\* C7 as stated: every constructed object has len(x_initials) ==
\* len(y_initials).
CE_C7_ConstructedSameLength ==
    Constructed => Len(X_initials) = Len(Y_initials)

\* C7 amended: construction does not compare the two lengths; the stepping
\* loop runs, and a step_k call returns, only on an object with
\* len(x_initials) == len(y_initials) == k, and the two lengths stay what
\* the constructor was given.
Thm_C7_SameLengthWhenStepping ==
    /\ Len(X_initials) = Len(args.x_initials)
    /\ Len(Y_initials) = Len(args.y_initials)
    /\ pc = "loop" =>
         Len(X_initials) = frame.order /\ Len(Y_initials) = frame.order
    /\ \A c \in Returned :
         Len(X_initials) = calls[c].order /\ Len(Y_initials) = calls[c].order

\* a step_k call returned after an earlier call of another order was rejected
Wit_C7_ReturnedAfterRejection ==
    \E c \in Returned : \E d \in 1..(c - 1) : calls[d].raised # NoError

---------------------------------------------------------------------------
\* C8 as stated: iteration i evaluates func at (x_window[j], y[i + j]) for
\* j = 0..k-1.  Checked after the iteration: frame.i - 1 is its index, the
\* window has slid by one since.
CE_C8_RecentValuesEvaluated ==
    (pc = "loop" /\ frame.i >= 1) =>
        LET i == frame.i - 1
            k == frame.order
        IN  /\ Len(frame.f_args) = k
            /\ \A j \in 0..(k - 1) :
                 At(frame.f_args, j)[2] = At(heap[frame.y], i + j)
            /\ \A j \in 1..(k - 1) :
                 At(frame.f_args, j)[1] = At(frame.x_vals, j - 1)

---------------------------------------------------------------------------
\* C9: y[k+i] = y[k+i-1] + (step_size / d) * sum_j c[j] * f_vals[k-1-j]
\* with the stated table c and d = (k-1)!, in float64 arithmetic: the
\* quotient, the products, the sum from j = 0 on and the final sum are each
\* rounded.
C9_Table(k) ==
    CASE k = 2 -> [c |-> <<3, -1>>, d |-> 1]
      [] k = 3 -> [c |-> <<23, -16, 5>>, d |-> 2]
      [] k = 4 -> [c |-> <<55, -59, 37, -9>>, d |-> 6]
      [] k = 5 -> [c |-> <<1901, -2774, 2616, -1274, 251>>, d |-> 24]

\* c[0]*f[k-1] + ... + c[j-1]*f[k-j]
RECURSIVE C9_Sum(_, _, _, _)
C9_Sum(c, f, k, j) ==
    IF j = 0 THEN FZero
    ELSE FAdd(C9_Sum(c, f, k, j - 1),
              FMul(FFromInt(At(c, j - 1)), At(f, k - j)))

Thm_C9_Recurrence ==
    (pc = "loop" /\ frame.i >= 1) =>
        LET i == frame.i - 1
            k == frame.order
            y == heap[frame.y]
            t == C9_Table(k)
        IN  /\ k \in Orders
            /\ Len(frame.f_vals) = k
            /\ At(y, k + i)
                 = FAdd(At(y, k + i - 1),
                        FMul(FDivInt(FFromPair(self.step_size), t.d),
                             C9_Sum(t.c, frame.f_vals, k, k)))

\* a second iteration has run whose derivative values are not the same
\* read backwards
Wit_C9_SecondIteration ==
    /\ pc = "loop"
    /\ frame.i >= 2
    /\ frame.f_vals # Reverse(frame.f_vals)

---------------------------------------------------------------------------
\* C10 as stated: at the start of iteration i the window is
\* x_initials[j] + i * step_size, consecutive entries differ by step_size,
\* the last entry does not exceed x_final before a step is taken, and
\* x_initials is not modified.
CE_C10_WindowExactlySpaced ==
    pc = "loop" =>
        LET k == frame.order
            w == frame.x_vals
        IN  /\ Len(w) = k
            /\ \A j \in 0..(k - 1) :
                 At(w, j) = Add(At(args.x_initials, j),
                                Scale(frame.i, args.step_size))
            /\ \A j \in 1..(k - 1) :
                 Sub(At(w, j), At(w, j - 1)) = args.step_size
            /\ frame.i < frame.n => Leq(Last(w), args.x_final)
            /\ X_initials = args.x_initials

\* entry m of the sequence x_initials[0..k-1] continued in steps of step_size
C10_Extended(k, m) ==
    IF m < k THEN At(args.x_initials, m)
    ELSE Add(At(args.x_initials, k - 1), Scale(m - k + 1, args.step_size))

\* C10 amended: the window always holds k values; at the start of iteration
\* i it is entries i..i+k-1 of x_initials[0..k-1] continued by adding
\* step_size repeatedly to its last value; consecutive entries differ by
\* step_size after rounding to 10 decimals; the last entry does not exceed
\* x_final before a step is taken; x_initials is not modified.
Thm_C10_WindowSlides ==
    pc = "loop" =>
        LET k == frame.order
            w == frame.x_vals
        IN  /\ Len(w) = k
            /\ \A j \in 0..(k - 1) : At(w, j) = C10_Extended(k, frame.i + j)
            /\ \A j \in 1..(k - 1) :
                 RoundedEquals(Round10(Sub(At(w, j), At(w, j - 1))),
                               args.step_size)
            /\ frame.i < frame.n => Leq(Last(w), args.x_final)
            /\ X_initials = args.x_initials

\* the window has slid twice over abscissas spaced only within the tolerance
Wit_C10_SlidTwice ==
    /\ pc = "loop"
    /\ frame.i >= 2
    /\ \E j \in 1..Len(args.x_initials) : args.x_initials[j][2] # 0

====
